---- MODULE Spec2Model ----
(***************************************************************************)
(* Model of src/lambda/lambda.py: the Lambda function that keeps one       *)
(* Let's Encrypt certificate current in ACM (the inventory store) with its *)
(* private key in SSM (the secret store).                                  *)
(*                                                                         *)
(* Conventions.  An optional Python value (None or a value) is a sequence  *)
(* of length at most one: <<>> is None and <<v>> is v.  A string that the  *)
(* code takes apart is the sequence of its parts: an ARN is the sequence   *)
(* of its '/'-separated components, an issuer is the sequence of its       *)
(* characters.  A PEM certificate body is the record of what is encoded in *)
(* it; ACM derives the metadata it reports from that body.                 *)
(***************************************************************************)
EXTENDS Integers, Sequences, FiniteSets, TLC

VARIABLES
    acm,               \* ACM: sequence of stored certificates; index = id
    ssm,               \* SSM: function from parameter name to value
    STAGING,           \* os.environ['STAGING'] == '1'
    pc,                \* per invocation: position in the code
    todo,              \* per invocation: summaries of the listing not yet visited
    latest_cert_info,  \* per invocation: local of find_latest_cert
    latest_private_key,\* per invocation: local of find_latest_cert
    cert,              \* per invocation: local of lambda_handler
    days_remaining,    \* per invocation: value returned by get_days_remaining
    ret,               \* per invocation: value lambda_handler returned
    error,             \* per invocation: exception that ended it
    ipc,               \* per call of import_cert: position in the code
    cert_data,         \* per call of import_cert: its argument
    cert_arn,          \* per call of import_cert: its local
    imported           \* per call of import_cert: value it returned

vars == <<acm, ssm, STAGING, pc, todo, latest_cert_info,
          latest_private_key, cert, days_remaining, ret, error,
          ipc, cert_data, cert_arn, imported>>

stores == <<acm, ssm>>
calls == <<ipc, cert_data, cert_arn, imported>>

---------------------------------------------------------------------------
(* Bounds *)

NumProcs == 2        \* invocations that may overlap
MaxCerts == 2        \* certificates in ACM before the first invocation
MaxImports == 2      \* calls of import_cert (specification SpecImport)

Procs == 1..NumProcs
Callers == 1..MaxImports

None == <<>>
Some(v) == <<v>>
Val(o) == o[1]

---------------------------------------------------------------------------
(* Configuration: lines 10-14 *)

DOMAINS == <<"a.example", "b.example">>
SUBJECT == DOMAINS[1]
FUNCTION_NAME == "lets-encrypt"

Range(s) == {s[i] : i \in 1..Len(s)}

---------------------------------------------------------------------------
(* Strings: str.lower and the substring test of line 73 *)

LowerChar(c) ==
    CASE c = "A" -> "a" [] c = "E" -> "e" [] c = "F" -> "f"
      [] c = "K" -> "k" [] c = "L" -> "l" [] c = "R" -> "r"
      [] OTHER -> c

Lower(s) == [i \in 1..Len(s) |-> LowerChar(s[i])]

Contains(sub, s) ==
    \E i \in 0..(Len(s) - Len(sub)) : SubSeq(s, i + 1, i + Len(sub)) = sub

Fake == <<"f", "a", "k", "e">>

IssuerProd == <<"R", "3">>
IssuerFake == <<"F", "a", "k", "e", " ", "L", "E">>
IssuerFAKE == <<"F", "A", "K", "E">>

---------------------------------------------------------------------------
(* Dates: datetime.date and the subtraction of line 117 *)

IsLeap(y) == (y % 4 = 0) /\ ((y % 100 # 0) \/ (y % 400 = 0))

DaysBeforeYear(y) ==
    ((y - 1) * 365) + ((y - 1) \div 4) - ((y - 1) \div 100) + ((y - 1) \div 400)

DaysBeforeMonthTable == <<0, 31, 59, 90, 120, 151, 181, 212, 243, 273, 304, 334>>

DaysBeforeMonth(y, m) ==
    DaysBeforeMonthTable[m] + (IF m > 2 /\ IsLeap(y) THEN 1 ELSE 0)

ToOrdinal(d) == DaysBeforeYear(d.year) + DaysBeforeMonth(d.year, d.month) + d.day

Date(y, m, d) == [year |-> y, month |-> m, day |-> d]

DateTime(y, m, d, h) == [year |-> y, month |-> m, day |-> d, hour |-> h]

\* datetime.date.today(): the invocations of one run happen on one day
Today == Date(2026, 11, 2)

\* fault: the time of day is rounded into the date
get_days_remaining_Rounded(c) ==
    LET expire_date == Date(c.NotAfter.year, c.NotAfter.month, c.NotAfter.day)
    IN  ToOrdinal(expire_date) - ToOrdinal(Today)
            + (IF c.NotAfter.hour >= 12 THEN 1 ELSE 0)

\* lines 111-125
get_days_remaining(c) ==
    LET today == Today
        expire_date == Date(c.NotAfter.year, c.NotAfter.month, c.NotAfter.day)
    IN  ToOrdinal(expire_date) - ToOrdinal(today)

---------------------------------------------------------------------------
(* ACM and SSM *)

ArnPrefix == "arn:aws:acm:eu-west-1:123456789012:certificate"

\* the ARN ACM gives the certificate with identifier id
Arn(id) == <<ArnPrefix, id>>

\* fault: the name does not depend on the certificate
get_ssm_param_name_Shared(arn) == <<FUNCTION_NAME, "PrivateKey">>

\* fault: only a part of the identifier goes into the name, so that the
\* names of some certificates fall together
get_ssm_param_name_Truncated(arn) ==
    LET cert_id == arn[Len(arn)] % 2
    IN  <<FUNCTION_NAME, cert_id, "PrivateKey">>

\* lines 148-157: cert_arn.split('/')[-1], then the formatted name
get_ssm_param_name(arn) ==
    LET cert_id == arn[Len(arn)]
    IN  <<FUNCTION_NAME, cert_id, "PrivateKey">>

\* acm.describe_certificate: response['Certificate']
DescribeCertificate(store, arn) ==
    LET c == store[arn[Len(arn)]]
    IN  [CertificateArn |-> arn,
         DomainName |-> c.Certificate.DomainName,
         SubjectAlternativeNames |-> c.Certificate.SubjectAlternativeNames,
         Issuer |-> c.Certificate.Issuer,
         NotAfter |-> c.Certificate.NotAfter,
         ImportedAt |-> c.ImportedAt,
         Status |-> c.Status]

\* acm.list_certificates(CertificateStatuses=['ISSUED']): the summaries
ListCertificates(store) ==
    LET F[i \in 0..Len(store)] ==
            IF i = 0 THEN <<>>
            ELSE IF store[i].Status = "ISSUED"
                 THEN Append(F[i - 1],
                             [CertificateArn |-> Arn(i),
                              DomainName |-> store[i].Certificate.DomainName])
                 ELSE F[i - 1]
    IN  F[Len(store)]

\* acm.get_certificate
GetCertificate(store, arn) ==
    LET c == store[arn[Len(arn)]]
    IN  [Certificate |-> c.Certificate, CertificateChain |-> c.CertificateChain]

\* lines 128-145: None when SSM raises ParameterNotFound
get_private_key(params, arn) ==
    LET param_name == get_ssm_param_name(arn)
    IN  IF param_name \in DOMAIN params THEN Some(params[param_name]) ELSE None

\* ssm.put_parameter(..., Overwrite=True)
PutParameter(params, name, value) ==
    [n \in (DOMAIN params) \cup {name} |-> IF n = name THEN value ELSE params[n]]

---------------------------------------------------------------------------
(* The certificates ACM may hold before the first invocation *)

X509(dn, sans, issuer, notAfter) ==
    [DomainName |-> dn, SubjectAlternativeNames |-> sans,
     Issuer |-> issuer, NotAfter |-> notAfter]

AB == <<"a.example", "b.example">>
BA == <<"b.example", "a.example">>

Plus60 == DateTime(2027, 1, 1, 0)
Plus31 == DateTime(2026, 12, 3, 0)
Plus30 == DateTime(2026, 12, 2, 23)
Plus10 == DateTime(2026, 11, 12, 12)
Minus1 == DateTime(2026, 11, 1, 23)

\* a stored certificate: what it encodes, its status, when it was imported
\* (None: issued by ACM itself) and whether SSM holds its private key
Stored(x, status, importedAt, hasKey) ==
    [x509 |-> x, Status |-> status, ImportedAt |-> importedAt, hasKey |-> hasKey]

Profiles ==
    { Stored(X509("a.example", BA, IssuerProd, Plus10), "ISSUED", Some(1), TRUE),
      Stored(X509("a.example", AB, IssuerProd, Plus60), "ISSUED", Some(2), TRUE),
      Stored(X509("a.example", AB, IssuerProd, Plus30), "ISSUED", Some(2), TRUE),
      Stored(X509("a.example", AB, IssuerFake, Plus31), "ISSUED", Some(1), TRUE),
      Stored(X509("a.example", AB, IssuerFAKE, Minus1), "ISSUED", Some(2), TRUE),
      Stored(X509("a.example", <<"a.example">>, IssuerProd, Plus60),
             "ISSUED", Some(2), TRUE),
      Stored(X509("a.example", <<"a.example", "b.example", "c.example">>,
                  IssuerProd, Plus60), "ISSUED", Some(2), TRUE),
      Stored(X509("a.example", AB, IssuerProd, Plus60), "ISSUED", Some(2), FALSE),
      Stored(X509("a.example", AB, IssuerProd, Plus60), "ISSUED", None, TRUE),
      Stored(X509("b.example", BA, IssuerProd, Plus60), "ISSUED", Some(2), TRUE),
      Stored(X509("a.example", AB, IssuerProd, Plus60), "INACTIVE", Some(2), TRUE) }

\* the PEM blobs of the certificate issued with serial number n
Body(x, n) ==
    [serial |-> n, DomainName |-> x.DomainName,
     SubjectAlternativeNames |-> x.SubjectAlternativeNames,
     Issuer |-> x.Issuer, NotAfter |-> x.NotAfter]
Chain(n) == <<"chain", n>>
Key(n) == <<"key", n>>

AcmOf(ps) ==
    [i \in 1..Len(ps) |->
        [Certificate |-> Body(ps[i].x509, i),
         CertificateChain |-> Chain(i),
         PrivateKey |-> Key(i),
         Status |-> ps[i].Status,
         ImportedAt |-> ps[i].ImportedAt]]

SsmOf(ps) ==
    [n \in {<<FUNCTION_NAME, i, "PrivateKey">> :
                i \in {j \in 1..Len(ps) : ps[j].hasKey}}
        |-> Key(n[2])]

SeqsUpTo(S, n) == UNION {[1..k -> S] : k \in 0..n}

---------------------------------------------------------------------------
(* Initial state *)

\* the invocations in `active` have entered lambda_handler, the others
\* never happen
Entered(active) ==
    /\ pc = [p \in Procs |-> IF p \in active THEN "list" ELSE "off"]
    /\ todo = [p \in Procs |-> <<>>]
    /\ latest_cert_info = [p \in Procs |-> None]
    /\ latest_private_key = [p \in Procs |-> None]
    /\ cert = [p \in Procs |-> None]
    /\ days_remaining = [p \in Procs |-> None]
    /\ ret = [p \in Procs |-> None]
    /\ error = [p \in Procs |-> "none"]

Init ==
    /\ \E ps \in SeqsUpTo(Profiles, MaxCerts) :
          /\ acm = AcmOf(ps)
          /\ ssm = SsmOf(ps)
    /\ STAGING \in BOOLEAN
    /\ Entered(Procs)
    /\ ipc = [c \in Callers |-> "off"]
    /\ cert_data = [c \in Callers |-> None]
    /\ cert_arn = [c \in Callers |-> None]
    /\ imported = [c \in Callers |-> None]
---------------------------------------------------------------------------
(* find_latest_cert: lines 31-102 *)

Certificate(body, arn, chain, notAfter, key) ==
    [Certificate |-> body, CertificateArn |-> arn, CertificateChain |-> chain,
     NotAfter |-> notAfter, PrivateKey |-> key]

\* fault: the primary subject is not compared
OtherDomain_Never(cert_summary) == FALSE

\* line 47
OtherDomain(cert_summary) == cert_summary.DomainName # SUBJECT

\* line 55: not cert_info.get('ImportedAt')
NotImported(cert_info) == cert_info.ImportedAt = None

\* fault: the comparison with the latest certificate so far is left out
Older_Never(cert_info, info) == FALSE

\* fault: the comparison is the wrong way round, the oldest is kept
Older_Reversed(cert_info, info) ==
    /\ info # None
    /\ Val(cert_info.ImportedAt) >= Val(Val(info).ImportedAt)

\* lines 59-61; info is latest_cert_info
Older(cert_info, info) ==
    /\ info # None
    /\ Val(cert_info.ImportedAt) <= Val(Val(info).ImportedAt)

\* fault: a certificate for some of the managed domains is accepted
DifferentDomains_Subset(cert_info) ==
    ~(Range(cert_info.SubjectAlternativeNames) \subseteq Range(DOMAINS))

\* fault: a certificate for all the managed domains and more is accepted
DifferentDomains_Superset(cert_info) ==
    ~(Range(DOMAINS) \subseteq Range(cert_info.SubjectAlternativeNames))

\* lines 64-66
DifferentDomains(cert_info) ==
    LET cert_domains == Range(cert_info.SubjectAlternativeNames)
        expected_domains == Range(DOMAINS)
    IN  cert_domains # expected_domains

\* fault: the issuer is not lowered before the test
WrongIssuer_CaseSensitive(cert_info, staging) ==
    Contains(Fake, cert_info.Issuer) # staging

\* lines 73-74
WrongIssuer(cert_info, staging) ==
    LET cert_staging == Contains(Fake, Lower(cert_info.Issuer))
    IN  cert_staging # staging

\* fault: a certificate without a key is not excluded
NoPrivateKey_Never(private_key) == FALSE

\* line 79: not private_key
NoPrivateKey(private_key) == private_key = None

\* lines 44-83: one iteration of the loop over the summaries; the value is
\* the pair <<latest_cert_info, latest_private_key>> after it
LoopBody(store, params, staging, cert_summary, info, key) ==
    LET arn == cert_summary.CertificateArn
        cert_info == DescribeCertificate(store, arn)
        private_key == get_private_key(params, arn)
    IN  IF OtherDomain(cert_summary) THEN <<info, key>>
        ELSE IF NotImported(cert_info) THEN <<info, key>>
        ELSE IF Older(cert_info, info) THEN <<info, key>>
        ELSE IF DifferentDomains(cert_info) THEN <<info, key>>
        ELSE IF WrongIssuer(cert_info, staging) THEN <<info, key>>
        ELSE IF NoPrivateKey(private_key) THEN <<info, key>>
        ELSE <<Some(cert_info), private_key>>

\* lines 89-102
FoundCertificate(store, info, key) ==
    LET arn == info.CertificateArn
        data == GetCertificate(store, arn)
    IN  Certificate(data.Certificate, arn, data.CertificateChain,
                    info.NotAfter, key)

\* line 261 calls find_latest_cert; lines 37-42: the listing, read as one page
List(p) ==
    /\ pc[p] = "list"
    /\ todo' = [todo EXCEPT ![p] = ListCertificates(acm)]
    /\ latest_cert_info' = [latest_cert_info EXCEPT ![p] = None]
    /\ latest_private_key' = [latest_private_key EXCEPT ![p] = None]
    /\ pc' = [pc EXCEPT ![p] = "scan"]
    /\ UNCHANGED <<stores, calls, STAGING, cert, days_remaining, ret, error>>

\* fault: a candidate whose key is not found gets a placeholder parameter
Scan_Placeholder(p) ==
    /\ pc[p] = "scan"
    /\ todo[p] # <<>>
    /\ LET r == LoopBody(acm, ssm, STAGING, Head(todo[p]),
                         latest_cert_info[p], latest_private_key[p])
           arn == Head(todo[p]).CertificateArn
       IN  /\ latest_cert_info' = [latest_cert_info EXCEPT ![p] = r[1]]
           /\ latest_private_key' = [latest_private_key EXCEPT ![p] = r[2]]
           /\ ssm' = IF get_private_key(ssm, arn) = None
                     THEN PutParameter(ssm, get_ssm_param_name(arn), Key(0))
                     ELSE ssm
    /\ todo' = [todo EXCEPT ![p] = Tail(todo[p])]
    /\ UNCHANGED <<acm, calls, STAGING, pc, cert, days_remaining, ret, error>>

\* lines 44-83: the next summary of the listing
Scan(p) ==
    /\ pc[p] = "scan"
    /\ todo[p] # <<>>
    /\ LET r == LoopBody(acm, ssm, STAGING, Head(todo[p]),
                         latest_cert_info[p], latest_private_key[p])
       IN  /\ latest_cert_info' = [latest_cert_info EXCEPT ![p] = r[1]]
           /\ latest_private_key' = [latest_private_key EXCEPT ![p] = r[2]]
    /\ todo' = [todo EXCEPT ![p] = Tail(todo[p])]
    /\ UNCHANGED <<stores, calls, STAGING, pc, cert, days_remaining, ret, error>>

---------------------------------------------------------------------------
(* lambda_handler: lines 255-272 *)

\* lines 85-102: what find_latest_cert returns when the loop has ended
find_latest_cert_return(store, info, key) ==
    IF info = None THEN None
    ELSE Some(FoundCertificate(store, Val(info), Val(key)))

RenewalThreshold == 30

\* fault: the threshold itself does not renew
MustRenew_Strict(c) ==
    \/ c = None
    \/ get_days_remaining(Val(c)) < RenewalThreshold

\* fault: the threshold is off by one day
MustRenew_Early(c) ==
    \/ c = None
    \/ get_days_remaining(Val(c)) <= RenewalThreshold + 1

\* line 263: not cert or get_days_remaining(cert) <= 30
MustRenew(c) ==
    \/ c = None
    \/ get_days_remaining(Val(c)) <= RenewalThreshold

\* fault: the exception of the client call is caught and dropped
provision_cert_Swallowed == [raises |-> "none"]

\* lines 208-252: provision_cert.  Line 238 evaluates the name certbot, which
\* no import (lines 1-7) and no assignment of the module binds: the call
\* raises NameError before the client runs and before any file is read.
provision_cert == [raises |-> "NameError"]

\* fault: the whole Certificate tuple is returned, expiry included
ReturnValue_WithExpiry(c) ==
    [Certificate |-> c.Certificate, CertificateArn |-> c.CertificateArn,
     CertificateChain |-> c.CertificateChain, NotAfter |-> c.NotAfter,
     PrivateKey |-> c.PrivateKey]

\* lines 267-272
ReturnValue(c) ==
    [Certificate |-> c.Certificate, CertificateArn |-> c.CertificateArn,
     CertificateChain |-> c.CertificateChain, PrivateKey |-> c.PrivateKey]

\* the loop has ended: find_latest_cert returns (lines 85-102) and
\* lambda_handler goes on with its result (lines 263-272)
Handle(p) ==
    /\ pc[p] = "scan"
    /\ todo[p] = <<>>
    /\ LET c == find_latest_cert_return(acm, latest_cert_info[p],
                                        latest_private_key[p])
       IN  /\ cert' = [cert EXCEPT ![p] = c]
           /\ days_remaining' =
                 [days_remaining EXCEPT ![p] =
                     IF c = None THEN None
                     ELSE Some(get_days_remaining(Val(c)))]
           /\ IF MustRenew(c)
              THEN /\ pc' = [pc EXCEPT ![p] = "aborted"]
                   /\ error' = [error EXCEPT ![p] = provision_cert.raises]
                   /\ UNCHANGED ret
              ELSE /\ pc' = [pc EXCEPT ![p] = "returned"]
                   /\ ret' = [ret EXCEPT ![p] = Some(ReturnValue(Val(c)))]
                   /\ UNCHANGED error
    /\ latest_cert_info' = [latest_cert_info EXCEPT ![p] = None]
    /\ latest_private_key' = [latest_private_key EXCEPT ![p] = None]
    /\ UNCHANGED <<stores, calls, STAGING, todo>>

\* the ACM or SSM call the invocation is about to make raises an error other
\* than ParameterNotFound; nothing catches it
CallsStore(p) ==
    \/ pc[p] = "list"
    \/ pc[p] = "scan" /\ (todo[p] # <<>> \/ latest_cert_info[p] # None)

\* fault: the error is caught and the handler returns without a record
StoreFailure_Swallowed(p) ==
    /\ CallsStore(p)
    /\ pc' = [pc EXCEPT ![p] = "returned"]
    /\ todo' = [todo EXCEPT ![p] = <<>>]
    /\ latest_cert_info' = [latest_cert_info EXCEPT ![p] = None]
    /\ latest_private_key' = [latest_private_key EXCEPT ![p] = None]
    /\ UNCHANGED <<stores, calls, STAGING, cert, days_remaining, ret, error>>

StoreFailure(p) ==
    /\ CallsStore(p)
    /\ pc' = [pc EXCEPT ![p] = "aborted"]
    /\ error' = [error EXCEPT ![p] = "ClientError"]
    /\ todo' = [todo EXCEPT ![p] = <<>>]
    /\ latest_cert_info' = [latest_cert_info EXCEPT ![p] = None]
    /\ latest_private_key' = [latest_private_key EXCEPT ![p] = None]
    /\ UNCHANGED <<stores, calls, STAGING, cert, days_remaining, ret>>

Next ==
    \E p \in Procs :
        \/ List(p)
        \/ Scan(p)
        \/ Handle(p)
        \/ StoreFailure(p)

Spec == Init /\ [][Next]_vars
---------------------------------------------------------------------------
(* import_cert: lines 160-193, called with the output of a client run *)

\* the three PEM files of lines 242-250, for the certificate with serial n
CertData(x, n) ==
    [Certificate |-> Body(x, n), CertificateChain |-> Chain(n),
     PrivateKey |-> Key(n)]

\* what the client obtains for the managed domains (line 230) from the
\* staging or the production authority (lines 235-236)
Issued(staging) ==
    X509("a.example", AB, IF staging THEN IssuerFake ELSE IssuerProd, Plus60)

\* the serial numbers of the certificates the calls import
Serial(c) == 100 + c

InitImport ==
    /\ \E ps \in SeqsUpTo({Stored(X509("a.example", BA, IssuerProd, Plus10),
                                  "ISSUED", Some(1), TRUE)}, 1) :
          /\ acm = AcmOf(ps)
          /\ ssm = SsmOf(ps)
    /\ STAGING \in BOOLEAN
    /\ Entered({1})
    /\ ipc = [c \in Callers |-> "import"]
    /\ cert_data = [c \in Callers |->
                       Some(CertData(Issued(STAGING), Serial(c)))]
    /\ cert_arn = [c \in Callers |-> None]
    /\ imported = [c \in Callers |-> None]

\* the times ACM's clock may show at an import: not before the latest
\* import so far, and the clock may or may not have advanced since
ImportTimes(store) ==
    LET stamps == {Val(store[i].ImportedAt) :
                      i \in {j \in 1..Len(store) : store[j].ImportedAt # None}}
        latest == IF stamps = {} THEN 1
                  ELSE CHOOSE t \in stamps : \A u \in stamps : u <= t
    IN  {latest, latest + 1}

\* fault: the import is given the ARN of the certificate imported last, so
\* that ACM replaces that certificate
ImportCertificate_Reimport(store, data, time) ==
    LET new == [Certificate |-> data.Certificate,
                CertificateChain |-> data.CertificateChain,
                PrivateKey |-> data.PrivateKey,
                Status |-> "ISSUED",
                ImportedAt |-> Some(time)]
    IN  IF store = <<>> THEN <<new>>
        ELSE [store EXCEPT ![Len(store)] = new]

\* acm.import_certificate: the stored certificate and its new identifier
ImportCertificate(store, data, time) ==
    Append(store, [Certificate |-> data.Certificate,
                   CertificateChain |-> data.CertificateChain,
                   PrivateKey |-> data.PrivateKey,
                   Status |-> "ISSUED",
                   ImportedAt |-> Some(time)])

\* fault: the import is tried again after it has succeeded
Import_Retry(c) ==
    /\ ipc[c] = "import"
    /\ \E time \in ImportTimes(acm) :
          acm' = ImportCertificate(acm, Val(cert_data[c]), time)
    /\ cert_arn' = [cert_arn EXCEPT ![c] = Some(Arn(Len(acm) + 1))]
    /\ UNCHANGED <<ssm, STAGING, pc, todo, latest_cert_info,
                   latest_private_key, cert, days_remaining, ret, error,
                   cert_data, imported, ipc>>

\* lines 168-169
Import(c) ==
    /\ ipc[c] = "import"
    /\ \E time \in ImportTimes(acm) :
          acm' = ImportCertificate(acm, Val(cert_data[c]), time)
    /\ cert_arn' = [cert_arn EXCEPT ![c] = Some(Arn(Len(acm) + 1))]
    /\ ipc' = [ipc EXCEPT ![c] = "put"]
    /\ UNCHANGED <<ssm, STAGING, pc, todo, latest_cert_info,
                   latest_private_key, cert, days_remaining, ret, error,
                   cert_data, imported>>

\* lines 173-182
Put(c) ==
    /\ ipc[c] = "put"
    /\ LET param_name == get_ssm_param_name(Val(cert_arn[c]))
       IN  ssm' = PutParameter(ssm, param_name, Val(cert_data[c]).PrivateKey)
    /\ ipc' = [ipc EXCEPT ![c] = "describe"]
    /\ UNCHANGED <<acm, STAGING, pc, todo, latest_cert_info,
                   latest_private_key, cert, days_remaining, ret, error,
                   cert_data, cert_arn, imported>>

\* lines 184-193
Describe(c) ==
    /\ ipc[c] = "describe"
    /\ LET not_after == DescribeCertificate(acm, Val(cert_arn[c])).NotAfter
           data == Val(cert_data[c])
       IN  imported' = [imported EXCEPT ![c] =
                           Some(Certificate(data.Certificate, Val(cert_arn[c]),
                                            data.CertificateChain, not_after,
                                            data.PrivateKey))]
    /\ ipc' = [ipc EXCEPT ![c] = "returned"]
    /\ UNCHANGED <<stores, STAGING, pc, todo, latest_cert_info,
                   latest_private_key, cert, days_remaining, ret, error,
                   cert_data, cert_arn>>

\* the ACM or SSM call that import_cert is about to make raises
ImportFailure(c) ==
    /\ ipc[c] \in {"import", "put", "describe"}
    /\ ipc' = [ipc EXCEPT ![c] = "aborted"]
    /\ cert_arn' = [cert_arn EXCEPT ![c] = None]
    /\ UNCHANGED <<stores, STAGING, pc, todo, latest_cert_info,
                   latest_private_key, cert, days_remaining, ret, error,
                   cert_data, imported>>

NextImport ==
    \/ Next
    \/ \E c \in Callers :
          \/ Import(c)
          \/ Put(c)
          \/ Describe(c)
          \/ ImportFailure(c)

SpecImport == InitImport /\ [][NextImport]_vars

\* every call of import_cert has returned or raised
AllCallsEnded == \A c \in Callers : ipc[c] \in {"returned", "aborted"}

\* lambda_handler is invoked next, after the calls of import_cert have ended
\* and with nothing else changing the stores
NextAfter ==
    \/ \E c \in Callers :
          \/ Import(c)
          \/ Put(c)
          \/ Describe(c)
          \/ ImportFailure(c)
    \/ \E p \in Procs :
          \/ AllCallsEnded /\ List(p)
          \/ AllCallsEnded /\ Scan(p)
          \/ AllCallsEnded /\ Handle(p)
          \/ AllCallsEnded /\ StoreFailure(p)

SpecAfter == InitImport /\ [][NextAfter]_vars

---------------------------------------------------------------------------
(* What the claims speak of, stated on the stores and not on the scan *)

Ids == 1..Len(acm)

IdOf(arn) == arn[2]

Terminated(p) == pc[p] \in {"returned", "aborted"}

\* the invocation has ended and no ACM or SSM call of it failed
Finished(p) == Terminated(p) /\ error[p] # "ClientError"

\* provision_cert was called (it is the only source of a NameError)
ExecutorCalled(p) == pc[p] = "aborted" /\ error[p] = "NameError"

HasStagingMarker(issuer) == issuer \in {IssuerFake, IssuerFAKE}

ManagedNames(i) ==
    Range(acm[i].Certificate.SubjectAlternativeNames) = {"a.example", "b.example"}

HasKey(i) == <<"lets-encrypt", i, "PrivateKey">> \in DOMAIN ssm

Eligible(i) ==
    /\ acm[i].Status = "ISSUED"
    /\ acm[i].Certificate.DomainName = "a.example"
    /\ acm[i].ImportedAt # None
    /\ ManagedNames(i)
    /\ HasStagingMarker(acm[i].Certificate.Issuer) <=> STAGING
    /\ HasKey(i)

\* the calendar days from today to the expiry dates that occur
DaysFromToday(notAfter) ==
    CASE notAfter = Plus60 -> 60
      [] notAfter = Plus31 -> 31
      [] notAfter = Plus30 -> 30
      [] notAfter = Plus10 -> 10
      [] notAfter = Minus1 -> 0 - 1

DaysLeft(i) == DaysFromToday(acm[i].Certificate.NotAfter)

\* the certificate the Locator returned to invocation p
Located(p) == IdOf(Val(cert[p]).CertificateArn)

---------------------------------------------------------------------------
(* C1 *)

\* C1: in every invocation that ends without a store failure, provision_cert
\* is called if and only if the Locator returned None or the located record
\* has at most 30 days remaining; with more than 30 days remaining the
\* invocation returns the four fields of the located record unchanged, and
\* the step that returns writes neither store.
C1_Decision ==
    \A p \in Procs :
        Finished(p) =>
            LET renew == cert[p] = None \/ DaysLeft(Located(p)) <= 30
            IN  /\ ExecutorCalled(p) <=> renew
                /\ ~renew =>
                     /\ pc[p] = "returned"
                     /\ ret[p] # None
                     /\ DOMAIN Val(ret[p]) = {"Certificate", "CertificateArn",
                                              "CertificateChain", "PrivateKey"}
                     /\ Val(ret[p]).Certificate = Val(cert[p]).Certificate
                     /\ Val(ret[p]).CertificateArn = Val(cert[p]).CertificateArn
                     /\ Val(ret[p]).CertificateChain = Val(cert[p]).CertificateChain
                     /\ Val(ret[p]).PrivateKey = Val(cert[p]).PrivateKey

C1_NoWrite ==
    \A p \in Procs :
        (pc[p] # "returned" /\ pc'[p] = "returned") => UNCHANGED <<acm, ssm>>

C1_ExecutorIffNoneOrExpiring == []C1_Decision /\ [][C1_NoWrite]_vars
\* an invocation returned a located record with 60 days remaining
C1_Witness ==
    \E p \in Procs :
        /\ pc[p] = "returned"
        /\ DaysLeft(Located(p)) = 60
        /\ Val(ret[p]).CertificateArn = Arn(Located(p))

---------------------------------------------------------------------------
(* C2 *)

\* C2: the Locator never holds or returns a certificate whose set of
\* alternate names differs from the set of managed domains.
C2_NamesEqualManagedDomains ==
    \A p \in Procs :
        /\ latest_cert_info[p] # None =>
              ManagedNames(IdOf(Val(latest_cert_info[p]).CertificateArn))
        /\ cert[p] # None => ManagedNames(Located(p))

\* a candidate with other alternate names, otherwise eligible and at least as
\* recent as the one returned, was in the listing
C2_Witness ==
    \E p \in Procs : \E i \in Ids :
        /\ Finished(p) /\ cert[p] # None
        /\ ~ManagedNames(i)
        /\ acm[i].Status = "ISSUED" /\ HasKey(i) /\ acm[i].ImportedAt # None
        /\ HasStagingMarker(acm[i].Certificate.Issuer) <=> STAGING
        /\ Val(acm[i].ImportedAt) > Val(acm[Located(p)].ImportedAt)

---------------------------------------------------------------------------
(* C3 *)

\* C3: the Locator never holds or returns a certificate for which SSM has no
\* parameter under the name derived from its identifier, and the key it
\* returns is the value of that parameter; when the most recent candidate
\* has no key and an older one is eligible, a certificate is returned.
C3_KeyRetrievable ==
    \A p \in Procs :
        /\ latest_cert_info[p] # None =>
              LET i == IdOf(Val(latest_cert_info[p]).CertificateArn)
              IN  /\ HasKey(i)
                  /\ latest_private_key[p] =
                        Some(ssm[<<"lets-encrypt", i, "PrivateKey">>])
        /\ cert[p] # None =>
              /\ HasKey(Located(p))
              /\ Val(cert[p]).PrivateKey =
                    ssm[<<"lets-encrypt", Located(p), "PrivateKey">>]
        /\ (Finished(p) /\ \E i \in Ids : Eligible(i)) => cert[p] # None

\* a candidate without a key, otherwise eligible and more recent, was passed
\* over for an older eligible one
C3_Witness ==
    \E p \in Procs : \E i \in Ids :
        /\ Finished(p) /\ cert[p] # None
        /\ ~HasKey(i)
        /\ acm[i].Status = "ISSUED" /\ ManagedNames(i) /\ acm[i].ImportedAt # None
        /\ acm[i].Certificate.DomainName = "a.example"
        /\ HasStagingMarker(acm[i].Certificate.Issuer) <=> STAGING
        /\ Val(acm[i].ImportedAt) > Val(acm[Located(p)].ImportedAt)

---------------------------------------------------------------------------
(* C4 *)

\* C4: an invocation whose Locator has ended without a store failure got
\* None exactly when no stored certificate is eligible, and otherwise an
\* eligible certificate imported no earlier than every other eligible one.
C4_LatestEligible ==
    \A p \in Procs :
        Finished(p) =>
            /\ cert[p] = None <=> ~(\E i \in Ids : Eligible(i))
            /\ cert[p] # None =>
                  /\ Eligible(Located(p))
                  /\ \A j \in Ids :
                        Eligible(j) =>
                            Val(acm[j].ImportedAt) <=
                                Val(acm[Located(p)].ImportedAt)

\* two eligible candidates with different import timestamps, the older one
\* listed last, and the newer one returned
C4_Witness ==
    \E p \in Procs : \E i, j \in Ids :
        /\ Finished(p) /\ cert[p] # None
        /\ Eligible(i) /\ Eligible(j)
        /\ i < j
        /\ Val(acm[j].ImportedAt) < Val(acm[i].ImportedAt)
        /\ Located(p) = i

---------------------------------------------------------------------------
(* C5 *)

\* C5: the issuer of a certificate the Locator holds or returns contains the
\* staging marker, in any letter case, if and only if STAGING is true.
C5_IssuerMatchesMode ==
    \A p \in Procs :
        /\ latest_cert_info[p] # None =>
              (HasStagingMarker(Val(latest_cert_info[p]).Issuer) <=> STAGING)
        /\ cert[p] # None =>
              (HasStagingMarker(acm[Located(p)].Certificate.Issuer) <=> STAGING)

\* staging mode: a production certificate, otherwise eligible and more
\* recent, was passed over for one with the marker
C5_Witness ==
    \E p \in Procs : \E i \in Ids :
        /\ STAGING
        /\ Finished(p) /\ cert[p] # None
        /\ acm[Located(p)].Certificate.Issuer = IssuerFake
        /\ ~HasStagingMarker(acm[i].Certificate.Issuer)
        /\ acm[i].Status = "ISSUED" /\ ManagedNames(i) /\ HasKey(i)
        /\ acm[i].ImportedAt # None
        /\ Val(acm[i].ImportedAt) > Val(acm[Located(p)].ImportedAt)

---------------------------------------------------------------------------
(* C6 *)

\* C6: get_days_remaining is the number of calendar days from today to the
\* date of NotAfter, whatever the time of day: 31 for today + 31 days (no
\* renewal), 30 for today + 30 days (renewal), -1 for yesterday (renewal).
C6_WholeDays ==
    \A p \in Procs :
        (Finished(p) /\ cert[p] # None) =>
            /\ days_remaining[p] = Some(DaysFromToday(Val(cert[p]).NotAfter))
            /\ Val(cert[p]).NotAfter = Plus31 =>
                  Val(days_remaining[p]) > 30 /\ pc[p] = "returned"
            /\ Val(cert[p]).NotAfter = Plus30 =>
                  Val(days_remaining[p]) <= 30 /\ ExecutorCalled(p)
            /\ Val(cert[p]).NotAfter = Minus1 =>
                  Val(days_remaining[p]) < 0 /\ ExecutorCalled(p)

\* the certificate expiring at 23:00 in 30 days was located and renewal called
C6_Witness ==
    \E p \in Procs :
        /\ ExecutorCalled(p) /\ cert[p] # None
        /\ Val(cert[p]).NotAfter = Plus30
        /\ Val(cert[p]).NotAfter.hour = 23

---------------------------------------------------------------------------
(* C7 *)

\* the eligible certificates of the latest import timestamp (the ones the
\* Locator may select) all have more than 30 days remaining
CurrentIsValid ==
    /\ \E i \in Ids : Eligible(i)
    /\ \A i \in Ids :
          (Eligible(i) /\ \A j \in Ids :
                Eligible(j) => Val(acm[j].ImportedAt) <= Val(acm[i].ImportedAt))
            => DaysLeft(i) > 30

\* C7: when the current certificate has more than 30 days remaining, any two
\* invocations that end without a store failure both return, and return the
\* identical record; no step of an invocation that returns writes a store.
C7_SameRecord ==
    \A p, q \in Procs :
        (Finished(p) /\ Finished(q) /\ CurrentIsValid) =>
            /\ pc[p] = "returned" /\ pc[q] = "returned"
            /\ ret[p] # None
            /\ ret[p] = ret[q]

C7_NoWrite ==
    \A p \in Procs :
        (pc'[p] = "returned" /\ pc[p] # pc'[p]) => (acm' = acm /\ ssm' = ssm)

C7_Idempotent == []C7_SameRecord /\ [][C7_NoWrite]_vars

\* two invocations, one after the other, have both returned
C7_Witness ==
    /\ CurrentIsValid
    /\ \A p \in Procs : pc[p] = "returned"
    /\ ret[1] = ret[2]

---------------------------------------------------------------------------
(* C8 *)

NoMatchingCertificate ==
    \A i \in Ids : acm[i].Certificate.DomainName # "a.example"

\* C8: when ACM has no certificate for the subject, an invocation that ends
\* without a store failure returns a record whose identifier is that of a
\* certificate in ACM, whose body, chain and key are those imported with it,
\* and whose key is in SSM under the name derived from the identifier.
\* lambda_handler does not: provision_cert raises NameError (line 238).
C8_RenewsWhenNoneFound ==
    \A p \in Procs :
        (NoMatchingCertificate /\ Finished(p)) =>
            /\ pc[p] = "returned"
            /\ ret[p] # None
            /\ LET r == Val(ret[p])
                   i == IdOf(r.CertificateArn)
               IN  /\ i \in Ids
                   /\ r.Certificate = acm[i].Certificate
                   /\ r.CertificateChain = acm[i].CertificateChain
                   /\ r.PrivateKey = acm[i].PrivateKey
                   /\ HasKey(i)
                   /\ ssm[<<"lets-encrypt", i, "PrivateKey">>] = r.PrivateKey

---------------------------------------------------------------------------
(* C9 *)

\* C9: when the only eligible certificate expires in 10 days, whatever other
\* certificates with other alternate names ACM holds, an invocation that
\* ends without a store failure located the eligible one and called the
\* Executor.
C9_IneligibleNeverSuppresses ==
    \A p \in Procs : \A i \in Ids :
        ( /\ Finished(p)
          /\ Eligible(i) /\ DaysLeft(i) = 10
          /\ \A j \in Ids \ {i} : ~ManagedNames(j) )
        => /\ cert[p] # None
           /\ Located(p) = i
           /\ ExecutorCalled(p)

\* a more recent certificate with other alternate names and 60 days left was
\* listed before the eligible one expiring in 10 days
C9_Witness ==
    \E p \in Procs : \E i, j \in Ids :
        /\ Finished(p)
        /\ Eligible(i) /\ DaysLeft(i) = 10
        /\ j < i /\ ~ManagedNames(j) /\ DaysLeft(j) = 60
        /\ acm[j].ImportedAt # None
        /\ Val(acm[j].ImportedAt) > Val(acm[i].ImportedAt)
        /\ Len(acm) = 2
        /\ ExecutorCalled(p)

---------------------------------------------------------------------------
(* C10, under SpecImport *)

\* C10: at every point of the calls of import_cert, ended or failed or under
\* way, a certificate the Locator holds or returns comes with the private key
\* that was imported with it: never without a key, never with the key of
\* another certificate.
C10_AtomicRegistration ==
    \A p \in Procs :
        /\ latest_cert_info[p] # None =>
              LET i == IdOf(Val(latest_cert_info[p]).CertificateArn)
              IN  latest_private_key[p] = Some(acm[i].PrivateKey)
        /\ cert[p] # None =>
              /\ Val(cert[p]).Certificate = acm[Located(p)].Certificate
              /\ Val(cert[p]).CertificateChain = acm[Located(p)].CertificateChain
              /\ Val(cert[p]).PrivateKey = acm[Located(p)].PrivateKey

\* the Locator returned a certificate a call has registered, having passed
\* over one that another call imported and whose key is not in SSM, that call
\* being between its two writes or having failed there
C10_Witness ==
    \E p \in Procs : \E c, d \in Callers :
        /\ cert[p] # None
        /\ cert_arn[c] = Some(Val(cert[p]).CertificateArn)
        /\ ipc[d] \in {"put", "aborted"}
        /\ \E j \in Ids :
              /\ acm[j].Certificate.serial = Serial(d)
              /\ j < Located(p)
              /\ ~HasKey(j)

---------------------------------------------------------------------------
(* C11 *)

\* the Locator of invocation p returned None or a record with at most 30
\* days remaining: line 264 calls provision_cert
RenewalAttempted(p) ==
    /\ Finished(p)
    /\ cert[p] = None \/ DaysLeft(Located(p)) <= 30

C11_Aborted ==
    \A p \in Procs :
        RenewalAttempted(p) =>
            /\ pc[p] = "aborted"
            /\ error[p] # "none"
            /\ ret[p] = None

C11_NoWrite ==
    \A p \in Procs :
        (pc[p] # "aborted" /\ pc'[p] = "aborted") => (acm' = acm /\ ssm' = ssm)

\* C11: when the client call of a renewal raises (the one outcome line 238
\* has), the invocation ends with that failure and returns no record, and
\* the step in which it fails imports no certificate and writes no key.
C11_ClientFailureAborts == []C11_Aborted /\ [][C11_NoWrite]_vars

\* a renewal was attempted for a located certificate and failed, both stores
\* still holding what the Locator found
C11_Witness ==
    \E p \in Procs :
        /\ RenewalAttempted(p)
        /\ cert[p] # None
        /\ error[p] = "NameError"
        /\ HasKey(Located(p))
        /\ Len(acm) = 1

---------------------------------------------------------------------------
(* C12, under SpecImport *)

CompleteRecord(r) ==
    /\ DOMAIN r = {"Certificate", "CertificateArn", "CertificateChain",
                   "PrivateKey"}
    /\ IdOf(r.CertificateArn) \in Ids
    /\ r.PrivateKey # None

C12_Outcomes ==
    /\ \A p \in Procs :
          /\ error[p] = "ClientError" => (pc[p] = "aborted" /\ ret[p] = None)
          /\ pc[p] \in {"list", "scan"} => error[p] = "none"
          /\ latest_cert_info[p] # None => latest_private_key[p] # None
          /\ Terminated(p) =>
                \/ /\ pc[p] = "returned" /\ error[p] = "none"
                   /\ ret[p] # None /\ CompleteRecord(Val(ret[p]))
                \/ /\ pc[p] = "aborted" /\ error[p] # "none"
                   /\ ret[p] = None
    /\ \A c \in Callers :
          /\ ipc[c] = "aborted" => imported[c] = None
          /\ ipc[c] = "returned" => imported[c] # None

C12_SkipAndNoRetry ==
    /\ \A p \in Procs :
          /\ Terminated(p) => (pc'[p] = pc[p] /\ ret'[p] = ret[p])
          /\ ( /\ pc[p] = "scan" /\ todo[p] # <<>>
               /\ ~HasKey(IdOf(Head(todo[p]).CertificateArn))
               /\ todo'[p] = Tail(todo[p])
               /\ error'[p] = "none" )
             => /\ pc'[p] = "scan"
                /\ latest_cert_info'[p] = latest_cert_info[p]
                /\ latest_private_key'[p] = latest_private_key[p]
    /\ \A c \in Callers :
          ipc[c] \in {"returned", "aborted"} => ipc'[c] = ipc[c]

\* C12: a candidate whose key SSM does not have is passed over and the scan
\* goes on; any other failure of an ACM or SSM call ends the invocation or
\* the call of import_cert with no record; an invocation that has ended has
\* either returned a complete record or aborted, and is not run again.
C12_NotFoundRecoveredOthersAbort ==
    []C12_Outcomes /\ [][C12_SkipAndNoRetry]_vars

\* an invocation returned a record after passing over a certificate whose key
\* was not found, and a call of import_cert was ended by a store failure
C12_Witness ==
    \E p \in Procs : \E d \in Callers :
        /\ pc[p] = "returned"
        /\ ipc[d] = "aborted"
        /\ \E j \in Ids : j < IdOf(Val(ret[p]).CertificateArn) /\ ~HasKey(j)

---------------------------------------------------------------------------
(* C13 *)

\* C13: two invocations that both found the same missing or expiring
\* certificate both complete a renewal, and each returns its own record,
\* with an identifier and a private key different from the other's, both
\* certificates and keys being in the stores.
C13_BothRenew ==
    \A p, q \in Procs :
        (p # q /\ RenewalAttempted(p) /\ RenewalAttempted(q)
              /\ cert[p] = cert[q]) =>
            /\ pc[p] = "returned" /\ pc[q] = "returned"
            /\ ret[p] # None /\ ret[q] # None
            /\ Val(ret[p]).CertificateArn # Val(ret[q]).CertificateArn
            /\ Val(ret[p]).PrivateKey # Val(ret[q]).PrivateKey
            /\ \A r \in {p, q} :
                  /\ IdOf(Val(ret[r]).CertificateArn) \in Ids
                  /\ get_private_key(ssm, Val(ret[r]).CertificateArn)
                        = Some(Val(ret[r]).PrivateKey)

---------------------------------------------------------------------------
(* C14, under SpecImport *)

\* every certificate and key of the stores is kept, with its content
Kept ==
    /\ Len(acm') >= Len(acm)
    /\ \A i \in 1..Len(acm) : acm'[i] = acm[i]
    /\ \A n \in DOMAIN ssm : n \in DOMAIN ssm' /\ ssm'[n] = ssm[n]

\* what a step adds is one certificate under the next identifier, handed to
\* the call that imported it, or one key under the name of the identifier
\* of the call that wrote it
AddedByImport ==
    /\ Len(acm') <= Len(acm) + 1
    /\ Len(acm') = Len(acm) + 1 =>
          /\ ssm' = ssm
          /\ \E c \in Callers :
                /\ ipc[c] = "import"
                /\ cert_arn'[c] = Some(Arn(Len(acm')))
                /\ acm'[Len(acm')].Certificate = Val(cert_data[c]).Certificate
    /\ \A n \in DOMAIN ssm' \ DOMAIN ssm :
          /\ DOMAIN ssm' = DOMAIN ssm \cup {n}
          /\ acm' = acm
          /\ \E c \in Callers :
                /\ ipc[c] = "put"
                /\ n = <<FUNCTION_NAME, IdOf(Val(cert_arn[c])), "PrivateKey">>
                /\ ssm'[n] = Val(cert_data[c]).PrivateKey

\* each call of import_cert has added at most one certificate
OneCertificatePerCall ==
    \A c \in Callers :
        Cardinality({i \in Ids : acm[i].Certificate.serial = Serial(c)}) <= 1

\* C14: no step of lambda_handler or import_cert removes or changes a
\* certificate in ACM or a key in SSM; a call of import_cert adds one
\* certificate under a new identifier and one key under the name made from
\* that identifier.
C14_AppendOnly ==
    []OneCertificatePerCall /\ [][Kept /\ AddedByImport]_vars

\* both calls of import_cert have returned, next to the certificate and key
\* that were there before
C14_Witness ==
    /\ \A c \in Callers : ipc[c] = "returned"
    /\ Len(acm) = MaxImports + 1
    /\ \A i \in Ids : HasKey(i)
    /\ acm[1].Certificate.NotAfter = Plus10

---------------------------------------------------------------------------
(* C15, under SpecImport *)

FourFields == {"Certificate", "CertificateArn", "CertificateChain",
               "PrivateKey"}

\* C15: what lambda_handler returns is a record of exactly the fields
\* Certificate, CertificateArn, CertificateChain and PrivateKey, taken from
\* the Certificate tuple it holds, whether that tuple came from the Locator
\* or from import_cert; NotAfter, which the tuple has, is not returned.
C15_FourFieldsNoExpiry ==
    /\ \A p \in Procs :
          pc[p] = "returned" =>
              /\ ret[p] # None /\ cert[p] # None
              /\ "NotAfter" \in DOMAIN Val(cert[p])
              /\ DOMAIN Val(ret[p]) = FourFields
              /\ \A f \in FourFields : Val(ret[p])[f] = Val(cert[p])[f]
    /\ \A c \in Callers :
          ipc[c] = "returned" =>
              /\ "NotAfter" \in DOMAIN Val(imported[c])
              /\ DOMAIN ReturnValue(Val(imported[c])) = FourFields
              /\ \A f \in FourFields :
                    ReturnValue(Val(imported[c]))[f] = Val(imported[c])[f]

\* an invocation returned the record of a certificate that a call of
\* import_cert had registered and returned
C15_Witness ==
    \E p \in Procs : \E c \in Callers :
        /\ pc[p] = "returned"
        /\ ipc[c] = "returned"
        /\ Val(cert[p]).CertificateArn = Val(imported[c]).CertificateArn
        /\ Val(cert[p]).NotAfter = Plus60

---------------------------------------------------------------------------
(* C16, under SpecImport *)

\* invocation p takes a step of find_latest_cert: the listing, one round of
\* the loop, its return, or a store error inside it
LocatorStep(p) ==
    /\ pc[p] \in {"list", "scan"}
    /\ pc'[p] # pc[p] \/ todo'[p] # todo[p]

\* C16: a step of find_latest_cert leaves ACM and SSM as they were, whether
\* the run goes on to find a record, to find none, or to abort.
C16_LocatorReadOnly ==
    [][\A p \in Procs : LocatorStep(p) => (acm' = acm /\ ssm' = ssm)]_vars

\* a run of find_latest_cert has found a record among certificates of which
\* one has no key yet, and both stores hold what import_cert left there
C16_Witness ==
    \E p \in Procs :
        /\ pc[p] = "returned"
        /\ Len(acm) = MaxImports + 1
        /\ \E i \in Ids : ~HasKey(i)
        /\ \E c \in Callers : ipc[c] = "put"

---------------------------------------------------------------------------
(* C17 *)

\* certificate i would be eligible but for its primary subject or for not
\* having been imported
OtherwiseEligible(i) ==
    /\ acm[i].Status = "ISSUED"
    /\ ManagedNames(i)
    /\ HasStagingMarker(acm[i].Certificate.Issuer) <=> STAGING
    /\ HasKey(i)

Imported(i) == acm[i].ImportedAt # None

PrimarySubjectManaged(i) == acm[i].Certificate.DomainName = DOMAINS[1]

\* C17: the certificate find_latest_cert holds during the scan, and the one
\* it returns, was imported into ACM and has the first managed domain as
\* its primary subject.
C17_ImportedAndPrimarySubject ==
    \A p \in Procs :
        /\ latest_cert_info[p] # None =>
              LET i == IdOf(Val(latest_cert_info[p]).CertificateArn)
              IN  Imported(i) /\ PrimarySubjectManaged(i)
        /\ (Finished(p) /\ cert[p] # None) =>
              Imported(Located(p)) /\ PrimarySubjectManaged(Located(p))

\* a run found no certificate although ACM holds one that only its primary
\* subject, or only its missing import timestamp, keeps from being eligible
C17_Witness ==
    /\ \E i \in Ids : OtherwiseEligible(i) /\ Imported(i)
                         /\ ~PrimarySubjectManaged(i)
    /\ \E i \in Ids : OtherwiseEligible(i) /\ ~Imported(i)
                         /\ PrimarySubjectManaged(i)
    /\ \E p \in Procs : Finished(p) /\ cert[p] = None

---------------------------------------------------------------------------
(* C18, under SpecImport *)

\* the certificates in ACM that call c of import_cert has imported
ImportedBy(c) == {i \in Ids : acm[i].Certificate.serial = Serial(c)}

\* the key call c has to store is in SSM under the name of its certificate
KeyWritten(c) ==
    /\ cert_arn[c] # None
    /\ get_private_key(ssm, Val(cert_arn[c]))
          = Some(Val(cert_data[c]).PrivateKey)

\* where call c stands says which of its steps have been done
StepsDone ==
    \A c \in Callers :
        /\ Cardinality(ImportedBy(c)) <= 1
        /\ ipc[c] = "import" => (ImportedBy(c) = {} /\ cert_arn[c] = None)
        /\ ipc[c] \in {"put", "describe", "returned"} =>
              /\ cert_arn[c] # None
              /\ ImportedBy(c) = {IdOf(Val(cert_arn[c]))}
        /\ ipc[c] = "put" => ~KeyWritten(c)
        /\ ipc[c] \in {"describe", "returned"} => KeyWritten(c)
        /\ ipc[c] = "returned" <=> imported[c] # None
        /\ ipc[c] = "returned" =>
              /\ Val(imported[c]).CertificateArn = Val(cert_arn[c])
              /\ Val(imported[c]).NotAfter
                    = acm[IdOf(Val(cert_arn[c]))].Certificate.NotAfter

\* every key in SSM has its certificate in ACM
KeysHaveCertificates ==
    \A n \in DOMAIN ssm : \E i \in Ids : n = <<FUNCTION_NAME, i, "PrivateKey">>

\* a call moves from the import to the key write to the re-fetch to its
\* return, or is ended by a store error, and never moves back
FixedOrder ==
    \A c \in Callers :
        ipc'[c] # ipc[c] =>
            \/ ipc[c] = "import" /\ ipc'[c] = "put"
            \/ ipc[c] = "put" /\ ipc'[c] = "describe"
            \/ ipc[c] = "describe" /\ ipc'[c] = "returned"
            \/ ipc[c] \in {"import", "put", "describe"} /\ ipc'[c] = "aborted"

C18_State == StepsDone /\ KeysHaveCertificates

\* C18: import_cert imports the certificate, then writes the key, then
\* fetches the expiry, once each and never again; so every key in SSM has
\* its certificate in ACM, and the NotAfter of the tuple import_cert returns
\* is the one ACM holds for the imported certificate.
C18_OnceInOrder == []C18_State /\ [][FixedOrder]_vars

\* one call has returned its tuple while another has imported its
\* certificate and not yet written the key
C18_Witness ==
    \E c, d \in Callers :
        /\ ipc[c] = "returned"
        /\ Val(imported[c]).NotAfter = Plus60
        /\ ipc[d] = "put"
        /\ IdOf(Val(cert_arn[d])) < IdOf(Val(cert_arn[c]))

---------------------------------------------------------------------------
(* C19, under SpecAfter *)

\* call c of import_cert returned the tuple of a certificate that is
\* eligible, has more than 30 days left and was imported later than every
\* other eligible certificate
RenewedAndLatest(c) ==
    /\ ipc[c] = "returned"
    /\ LET r == IdOf(Val(imported[c]).CertificateArn)
       IN  /\ Eligible(r)
           /\ DaysLeft(r) > 30
           /\ \A j \in Ids \ {r} :
                 Eligible(j) =>
                     Val(acm[j].ImportedAt) < Val(acm[r].ImportedAt)

\* C19: once import_cert has registered a renewed certificate that has the
\* managed names, the issuer of the mode, more than 30 days left and the
\* latest import time, the next invocation of lambda_handler returns that
\* certificate, with the identifier and key import_cert returned, and does
\* not call provision_cert.
C19_Converges ==
    \A c \in Callers : \A p \in Procs :
        (RenewedAndLatest(c) /\ Finished(p)) =>
            /\ pc[p] = "returned"
            /\ ret[p] # None
            /\ Val(ret[p]).CertificateArn = Val(imported[c]).CertificateArn
            /\ Val(ret[p]).PrivateKey = Val(imported[c]).PrivateKey
            /\ Val(ret[p]).Certificate = Val(imported[c]).Certificate

\* the next invocation returned the renewed certificate although ACM still
\* holds, with its key, the certificate of 10 days that called for the renewal
C19_Witness ==
    \E c \in Callers : \E p \in Procs :
        /\ RenewedAndLatest(c)
        /\ pc[p] = "returned"
        /\ Val(ret[p]).CertificateArn = Val(imported[c]).CertificateArn
        /\ ~STAGING
        /\ Eligible(1) /\ DaysLeft(1) = 10

---------------------------------------------------------------------------
(* C20, under SpecImport *)

\* record r, returned for a certificate, has the body and the key that were
\* imported into ACM under its identifier
Paired(r) ==
    LET i == IdOf(r.CertificateArn)
    IN  /\ i \in Ids
        /\ r.Certificate = acm[i].Certificate
        /\ r.PrivateKey = acm[i].PrivateKey

\* C20: every record lambda_handler returns, and every tuple import_cert
\* returns for lambda_handler to return, has the private key that was
\* imported with the certificate of its identifier; the SSM names of two
\* certificates differ, and the key under a certificate's name is its own.
C20_Pairing ==
    /\ \A p \in Procs : pc[p] = "returned" => Paired(Val(ret[p]))
    /\ \A c \in Callers :
          ipc[c] = "returned" =>
              /\ Paired(ReturnValue(Val(imported[c])))
              /\ Val(imported[c]).PrivateKey = Val(cert_data[c]).PrivateKey
    /\ \A i, j \in Ids :
          i # j => get_ssm_param_name(Arn(i)) # get_ssm_param_name(Arn(j))
    /\ \A i \in Ids :
          get_private_key(ssm, Arn(i)) \in {None, Some(acm[i].PrivateKey)}

\* both calls of import_cert have written their keys, each under its own
\* name, and an invocation returned the record of the later one
C20_Witness ==
    \E p \in Procs : \E c, d \in Callers :
        /\ c # d
        /\ ipc[c] = "returned" /\ ipc[d] = "returned"
        /\ pc[p] = "returned"
        /\ Val(ret[p]).CertificateArn = Val(cert_arn[c])
        /\ IdOf(Val(cert_arn[d])) < IdOf(Val(cert_arn[c]))
        /\ Val(ret[p]).PrivateKey # Val(imported[d]).PrivateKey

====
